---- MODULE Spec2Model ----
(***************************************************************************)
(* Model of cli/src/invocation/filter.rs: match_task and filtered_tasks.   *)
(*                                                                         *)
(* A Replica is modelled by the two things the resolver reads from it: the *)
(* task map (uuid -> task) and the working set (a vector of optional       *)
(* uuids whose slot 0 is always empty).  filtered_tasks is modelled as a   *)
(* state machine with one action per store call / outer-loop iteration, so *)
(* that a store error (the `?` operator) or a panic (the `unwrap` in       *)
(* match_task) can end the call at every point where the code can end.     *)
(*                                                                         *)
(* A Uuid is a number; its text is the lower-case hexadecimal, hyphenated  *)
(* form, scaled down from 8-4-4-4-12 digits to 1-1 digits.                 *)
(***************************************************************************)
EXTENDS Integers, Sequences, FiniteSets, TLC

\* ------------------------------------------------------------- bounds
\* Most tasks a store holds.
MaxTasks == 2
\* Longest identifier list of a filter.
MaxIds == 2
\* Longest condition list of a filter.
MaxConds == 2

\* ------------------------------------------------------------- values
\* Option::None, for Option<Uuid> and Option<usize>.
None == -1

\* The uuids a task may have: texts "0-a", "0-b", "a-0".
Uuids == {10, 11, 160}

HexDigits == <<"0", "1", "2", "3", "4", "5", "6", "7",
               "8", "9", "a", "b", "c", "d", "e", "f">>

\* Uuid::to_string: lower-case hex digits, most significant first, hyphenated.
to_string(uuid) == <<HexDigits[(uuid \div 16) + 1], "-", HexDigits[(uuid % 16) + 1]>>

\* str::starts_with: an exact, case-sensitive prefix test.
starts_with(s, prefix) ==
    /\ Len(prefix) <= Len(s)
    /\ \A i \in 1..Len(prefix) : s[i] = prefix[i]

\* The uuids a filter may name in full: one that shares its first digit with
\* another, and one that does not.
QueryUuids == {10, 160}

\* The partial uuids a filter may name: a prefix two texts share, and the
\* full text of every uuid a filter may name in full.
Prefixes == {<<"0">>} \cup {to_string(u) : u \in QueryUuids}

\* Tag strings: two well-formed tags and one that Tag::try_from rejects.
TagStrings == {"yes", "no", "bad tag"}

\* Tag::try_from(&str): whether the string is a well-formed tag.
ValidTag(s) == s \in {"yes", "no"}

Statuses == {"Pending", "Completed", "Deleted"}

StoreErrors == {"io", "corrupt"}

\* Sequences over S of length at most n.
SeqsUpTo(S, n) == UNION {[1..k -> S] : k \in 0..n}

Range(s) == {s[i] : i \in DOMAIN s}

\* ------------------------------------------------------------- argparse types
Uuid(u) == [kind |-> "Uuid", uuid |-> u, id |-> 0, prefix |-> <<>>]
WorkingSetId(i) == [kind |-> "WorkingSetId", uuid |-> None, id |-> i, prefix |-> <<>>]
PartialUuid(p) == [kind |-> "PartialUuid", uuid |-> None, id |-> 0, prefix |-> p]

HasTag(t) == [kind |-> "HasTag", tag |-> t]
NoTag(t) == [kind |-> "NoTag", tag |-> t]

Conditions == {HasTag(t) : t \in TagStrings} \cup {NoTag(t) : t \in TagStrings}

\* The conditions of a resolution: on one well-formed tag, and a malformed one.
FilterConditions == {HasTag("yes"), NoTag("yes"), HasTag("bad tag")}

IdList(ids) == [kind |-> "IdList", ids |-> ids]
AllTasks == [kind |-> "AllTasks", ids |-> <<>>]
PendingTasks == [kind |-> "PendingTasks", ids |-> <<>>]

\* Filter::default(): every task, no condition.
DefaultFilter == [universe |-> AllTasks, conditions |-> <<>>]

VARIABLES
    tasks,        \* the replica's task map: uuid -> [tags, status]
    working_set,  \* the replica's working set: working_set[i + 1] is slot i
    filter,       \* the filter of the call in progress
    pc,           \* where the call is
    todo,         \* the uuids all_tasks() returned that drain() has not yielded
    vec,          \* the vector working_set() returned
    idx,          \* the position of the `for` loop over ids / over vec
    seen,         \* the direct-fetch branch's HashSet of uuids
    res,          \* the vector of matching tasks (by uuid), in push order
    ret,          \* what filtered_tasks returned
    calls,        \* how often each store call was made
    raised,       \* the error a store call returned, if one did
    matched       \* match_task's outcome (specification SpecMatch)

vars == <<tasks, working_set, filter, pc, todo, vec, idx, seen, res, ret, calls, raised, matched>>

NoCalls == [all_tasks |-> 0, working_set |-> 0, get_task |-> 0,
            get_working_set_task |-> 0, get_working_set_index |-> 0]

NotReturned == [kind |-> "none", tasks |-> <<>>, err |-> ""]
Ok(ts) == [kind |-> "Ok", tasks |-> ts, err |-> ""]
Err(e) == [kind |-> "Err", tasks |-> <<>>, err |-> e]

\* ------------------------------------------------------------- the replica
\* Working sets over the stored uuids S: slot 0 is the empty sentinel, a
\* task holds at most one slot, only stored tasks hold one, slots between
\* them may be empty, and the last slot past the sentinel is held.
WorkingSets(S) ==
    {w \in SeqsUpTo(S \cup {None}, Cardinality(S) + 1) :
        /\ Len(w) >= 1
        /\ w[1] = None
        /\ Len(w) > 1 => w[Len(w)] # None
        /\ \A i, j \in DOMAIN w : (i # j /\ w[i] # None) => w[i] # w[j]}

InWorkingSet(ws, u) == \E i \in DOMAIN ws : ws[i] = u

\* Task maps with a working set: a task in the working set is pending, a
\* task outside it is completed or deleted (the store after gc()).
TaskMaps(S, ws, T) ==
    {t \in [S -> [tags : SUBSET T, status : Statuses]] :
        \A u \in S : (t[u].status = "Pending") <=> InWorkingSet(ws, u)}

\* Replica::all_tasks: the map's keys (the tasks are read through `tasks`).
all_tasks == DOMAIN tasks

\* Replica::get_task
get_task(uuid) == IF uuid \in DOMAIN tasks THEN uuid ELSE None

\* Replica::working_set: one optional task per slot.
working_set_tasks == [i \in DOMAIN working_set |->
                        IF working_set[i] = None THEN None ELSE get_task(working_set[i])]

\* Replica::get_working_set_task
get_working_set_task(i) ==
    IF i + 1 \in DOMAIN working_set /\ working_set[i + 1] # None
    THEN get_task(working_set[i + 1])
    ELSE None

\* Replica::get_working_set_index: the first slot holding the uuid.
get_working_set_index(uuid) ==
    IF \E i \in DOMAIN working_set : working_set[i] = uuid
    THEN (CHOOSE i \in DOMAIN working_set :
            /\ working_set[i] = uuid
            /\ \A j \in DOMAIN working_set : working_set[j] = uuid => i <= j) - 1
    ELSE None

\* Task::has_tag
has_tag(uuid, tag) == tag \in tasks[uuid].tags

\* ------------------------------------------------------------- match_task
\* The loop of match_task from condition i on: "true", "false", or "panic"
\* when try_into().unwrap() meets a string that is no tag.
RECURSIVE match_from(_, _, _)
match_from(conds, i, uuid) ==
    IF i > Len(conds) THEN "true"
    ELSE IF ~ValidTag(conds[i].tag) THEN "panic"
    ELSE IF conds[i].kind = "HasTag" /\ ~has_tag(uuid, conds[i].tag) THEN "false"
    ELSE IF conds[i].kind = "NoTag" /\ has_tag(uuid, conds[i].tag) THEN "false"
    ELSE match_from(conds, i + 1, uuid)

\* Mutant of match_task: the NoTag conditions are not looked at.
IsHasTag(c) == c.kind = "HasTag"
match_task_hasonly(f, uuid) == match_from(SelectSeq(f.conditions, IsHasTag), 1, uuid)

match_task(f, uuid) == match_from(f.conditions, 1, uuid)


\* ------------------------------------------------------------- filtered_tasks
\* Mutant of is_partial_uuid: everything but a full uuid counts as partial.
is_not_full_uuid(taskid) == taskid.kind # "Uuid"

is_partial_uuid(taskid) == taskid.kind = "PartialUuid"

\* Mutant of Dispatch: the AllTasks and PendingTasks arms are exchanged.
Dispatch_swapped(universe) ==
    CASE universe.kind = "IdList" /\ (\E k \in DOMAIN universe.ids : is_partial_uuid(universe.ids[k]))
            -> "scan_call"
      [] universe.kind = "IdList" -> "direct"
      [] universe.kind = "AllTasks" -> "pending_call"
      [] universe.kind = "PendingTasks" -> "all_call"

\* `match filter.universe`: the arm taken.
Dispatch(universe) ==
    CASE universe.kind = "IdList" /\ (\E k \in DOMAIN universe.ids : is_partial_uuid(universe.ids[k]))
            -> "scan_call"
      [] universe.kind = "IdList" -> "direct"
      [] universe.kind = "AllTasks" -> "all_call"
      [] universe.kind = "PendingTasks" -> "pending_call"

\* Mutant of id_matches: a partial uuid is compared with the whole text.
id_matches_exact(id, uuid) ==
    CASE id.kind = "WorkingSetId" -> get_working_set_index(uuid) = id.id
      [] id.kind = "PartialUuid" -> to_string(uuid) = id.prefix
      [] id.kind = "Uuid" -> id.uuid = uuid

\* The scan branch's test of one identifier against one enumerated task.
id_matches(id, uuid) ==
    CASE id.kind = "WorkingSetId" -> get_working_set_index(uuid) = id.id
      [] id.kind = "PartialUuid" -> starts_with(to_string(uuid), id.prefix)
      [] id.kind = "Uuid" -> id.uuid = uuid

\* The scan branch's inner loop `for id in ids` over one enumerated task,
\* from identifier k on.  failAt is the position of the identifier whose
\* get_working_set_index call fails (0: none fails).  out is how the loop
\* ends: "push" (res.push, continue 'task), "next" (ids exhausted), "err"
\* (the `?` returned) or "panic"; ncalls counts the get_working_set_index
\* calls made, raised tells whether one of them failed.
RECURSIVE scan_ids(_, _, _, _)
scan_ids(f, k, uuid, failAt) ==
    IF k > Len(f.universe.ids)
    THEN [out |-> "next", ncalls |-> 0, raised |-> FALSE]
    ELSE LET id == f.universe.ids[k]
             icall == IF id.kind = "WorkingSetId" THEN 1 ELSE 0
             m == IF id_matches(id, uuid) THEN match_task(f, uuid) ELSE "false"
             rest == scan_ids(f, k + 1, uuid, failAt)
         IN  IF icall = 1 /\ failAt = k
             THEN [out |-> "err", ncalls |-> 1, raised |-> TRUE]
             ELSE IF m = "true"
             THEN [out |-> "push", ncalls |-> icall, raised |-> FALSE]
             ELSE IF m = "panic"
             THEN [out |-> "panic", ncalls |-> icall, raised |-> FALSE]
             ELSE [rest EXCEPT !.ncalls = @ + icall]

\* Mutant of scan_rest: a push ends the enumeration (break for continue).
scan_rest_break(t, uuid, out) == IF out = "push" THEN {} ELSE t \ {uuid}

\* The scan loop's advance after one task: a push ends with continue 'task.
scan_rest(t, uuid, out) == t \ {uuid}

\* The direct-fetch branch's lookup of one identifier.
direct_fetch(id) ==
    CASE id.kind = "WorkingSetId" -> get_working_set_task(id.id)
      [] id.kind = "Uuid" -> get_task(id.uuid)

direct_call(id) == IF id.kind = "WorkingSetId" THEN "get_working_set_task" ELSE "get_task"

\* Mutant of already_seen: the seen set is not consulted.
never_seen(s, uuid) == FALSE

\* `seen.contains(&uuid)`
already_seen(s, uuid) == uuid \in s

\* What one candidate does to res: "push", "skip" or "panic".
candidate(f, task) ==
    IF task = None THEN "skip"
    ELSE CASE match_task(f, task) = "true" -> "push"
           [] match_task(f, task) = "false" -> "skip"
           [] match_task(f, task) = "panic" -> "panic"

\* Mutant of pending_slot: a held slot is pushed without match_task.
pending_slot_nomatch(f, task) == IF task = None THEN "skip" ELSE "push"

\* The pending branch's `if let Some(task) = task { if match_task(..) {..} }`.
pending_slot(f, task) == candidate(f, task)

\* Mutant of on_store_error: the enumeration stops and what was collected
\* is returned.
on_store_error_break(e, r) == Ok(r)

\* The Err arm of `?`: the store's error is the call's result.
on_store_error(e, r) == Err(e)

Bump(call) == [calls EXCEPT ![call] = @ + 1]

\* A store call failed with e: filtered_tasks returns.
Fail(e, call) ==
    /\ raised' = e
    /\ ret' = on_store_error(e, res)
    /\ pc' = "done"
    /\ calls' = Bump(call)

\* The task identifiers a filter may hold, for the store at hand.
TaskIds ==
    {Uuid(u) : u \in QueryUuids}
    \cup {WorkingSetId(i) : i \in 1..MaxTasks}
    \cup {PartialUuid(p) : p \in Prefixes}

Universes == {AllTasks, PendingTasks} \cup {IdList(ids) : ids \in SeqsUpTo(TaskIds, MaxIds)}

Filters == [universe : Universes, conditions : SeqsUpTo(FilterConditions, MaxConds)]

Stores ==
    UNION {UNION {{[t |-> t, ws |-> ws] : t \in TaskMaps(S, ws, {"yes"})} : ws \in WorkingSets(S)} :
            S \in {X \in SUBSET Uuids : Cardinality(X) <= MaxTasks}}

Init ==
    /\ \E st \in Stores : tasks = st.t /\ working_set = st.ws
    /\ filter = DefaultFilter
    /\ pc = "idle"
    /\ todo = {}
    /\ vec = <<>>
    /\ idx = 1
    /\ seen = {}
    /\ res = <<>>
    /\ ret = NotReturned
    /\ calls = NoCalls
    /\ raised = ""
    /\ matched = "none"

\* filtered_tasks(replica, filter) is entered.
Call ==
    /\ pc = "idle"
    /\ \E f \in Filters : filter' = f /\ pc' = Dispatch(f.universe)
    /\ UNCHANGED <<tasks, working_set, todo, vec, idx, seen, res, ret, calls, raised, matched>>

\* replica.all_tasks()? of the scan branch and of the AllTasks branch.
AllTasksCall ==
    /\ pc \in {"scan_call", "all_call"}
    /\ \/ /\ todo' = all_tasks
          /\ pc' = IF pc = "scan_call" THEN "scan" ELSE "all"
          /\ calls' = Bump("all_tasks")
          /\ UNCHANGED <<ret, raised>>
       \/ /\ \E e \in StoreErrors : Fail(e, "all_tasks")
          /\ UNCHANGED todo
    /\ UNCHANGED <<tasks, working_set, filter, vec, idx, seen, res, matched>>

\* One iteration of 'task: drain() yields a task in the map's order, which
\* is any order; the identifiers are tried against it, and any one of the
\* get_working_set_index calls made may fail.
ScanTask ==
    /\ pc = "scan"
    /\ \E uuid \in todo, failAt \in 0..Len(filter.universe.ids) :
        LET r == scan_ids(filter, 1, uuid, failAt) IN
        /\ (failAt # 0) => r.raised
        /\ calls' = [calls EXCEPT !.get_working_set_index = @ + r.ncalls]
        /\ CASE r.out = "err" ->
                  /\ \E e \in StoreErrors : raised' = e /\ ret' = on_store_error(e, res)
                  /\ pc' = "done"
                  /\ UNCHANGED <<todo, res>>
             [] r.out = "panic" ->
                  /\ pc' = "panicked"
                  /\ UNCHANGED <<todo, res, ret, raised>>
             [] r.out = "push" ->
                  /\ res' = Append(res, uuid)
                  /\ todo' = scan_rest(todo, uuid, r.out)
                  /\ UNCHANGED <<pc, ret, raised>>
             [] r.out = "next" ->
                  /\ todo' = scan_rest(todo, uuid, r.out)
                  /\ UNCHANGED <<pc, res, ret, raised>>
    /\ UNCHANGED <<tasks, working_set, filter, vec, idx, seen, matched>>

\* One iteration of the direct-fetch loop `for id in ids`.
DirectId ==
    /\ pc = "direct"
    /\ idx <= Len(filter.universe.ids)
    /\ LET id == filter.universe.ids[idx]
           task == direct_fetch(id)
           fresh == task # None /\ ~already_seen(seen, task)
           c == IF fresh THEN candidate(filter, task) ELSE "skip"
       IN  \/ /\ \E e \in StoreErrors : Fail(e, direct_call(id))
              /\ UNCHANGED <<idx, seen, res>>
           \/ /\ calls' = Bump(direct_call(id))
              /\ seen' = IF fresh THEN seen \cup {task} ELSE seen
              /\ idx' = idx + 1
              /\ res' = IF c = "push" THEN Append(res, task) ELSE res
              /\ pc' = IF c = "panic" THEN "panicked" ELSE pc
              /\ UNCHANGED <<ret, raised>>
    /\ UNCHANGED <<tasks, working_set, filter, todo, vec, matched>>

\* One iteration of the AllTasks loop over the drained map.
AllTasksTask ==
    /\ pc = "all"
    /\ \E uuid \in todo :
        LET c == candidate(filter, uuid) IN
        /\ todo' = todo \ {uuid}
        /\ res' = IF c = "push" THEN Append(res, uuid) ELSE res
        /\ pc' = IF c = "panic" THEN "panicked" ELSE pc
    /\ UNCHANGED <<tasks, working_set, filter, vec, idx, seen, ret, calls, raised, matched>>

\* replica.working_set()? of the PendingTasks branch.
PendingCall ==
    /\ pc = "pending_call"
    /\ \/ /\ vec' = working_set_tasks
          /\ pc' = "pending"
          /\ calls' = Bump("working_set")
          /\ UNCHANGED <<ret, raised>>
       \/ /\ \E e \in StoreErrors : Fail(e, "working_set")
          /\ UNCHANGED vec
    /\ UNCHANGED <<tasks, working_set, filter, todo, idx, seen, res, matched>>

\* One iteration of the PendingTasks loop over the drained vector.
PendingSlot ==
    /\ pc = "pending"
    /\ idx <= Len(vec)
    /\ LET c == pending_slot(filter, vec[idx]) IN
        /\ idx' = idx + 1
        /\ res' = IF c = "push" THEN Append(res, vec[idx]) ELSE res
        /\ pc' = IF c = "panic" THEN "panicked" ELSE pc
    /\ UNCHANGED <<tasks, working_set, filter, todo, vec, seen, ret, calls, raised, matched>>

\* The loop of the arm taken is over.
LoopDone ==
    \/ pc \in {"scan", "all"} /\ todo = {}
    \/ pc = "direct" /\ idx > Len(filter.universe.ids)
    \/ pc = "pending" /\ idx > Len(vec)

\* Ok(res.into_iter())
Return ==
    /\ LoopDone
    /\ ret' = Ok(res)
    /\ pc' = "done"
    /\ UNCHANGED <<tasks, working_set, filter, todo, vec, idx, seen, res, calls, raised, matched>>

Next ==
    \/ Call
    \/ AllTasksCall
    \/ ScanTask
    \/ DirectId
    \/ AllTasksTask
    \/ PendingCall
    \/ PendingSlot
    \/ Return

Spec == Init /\ [][Next]_vars


\* ------------------------------------------------------------- match_task alone
\* A store of one task, and a filter whose conditions range over every tag
\* string; MatchTask applies match_task to the task.
InitMatch ==
    /\ \E ws \in WorkingSets({10}) :
         /\ working_set = ws
         /\ tasks \in TaskMaps({10}, ws, {"yes", "no"})
    /\ filter \in [universe : {AllTasks}, conditions : SeqsUpTo(Conditions, MaxConds)]
    /\ pc = "idle"
    /\ todo = {}
    /\ vec = <<>>
    /\ idx = 1
    /\ seen = {}
    /\ res = <<>>
    /\ ret = NotReturned
    /\ calls = NoCalls
    /\ raised = ""
    /\ matched = "none"

MatchTask ==
    /\ pc = "idle"
    /\ matched' = match_task(filter, 10)
    /\ pc' = "done"
    /\ UNCHANGED <<tasks, working_set, filter, todo, vec, idx, seen, res, ret, calls, raised>>

NextMatch == MatchTask

SpecMatch == InitMatch /\ [][NextMatch]_vars

\* ------------------------------------------------------------- what the claims say
\* The task carries the tag named by the string.
Carries(uuid, tag) == tag \in tasks[uuid].tags

\* The task satisfies the conjunction of the conditions.
Satisfies(conds, uuid) ==
    \A i \in DOMAIN conds :
        /\ conds[i].kind = "HasTag" => Carries(uuid, conds[i].tag)
        /\ conds[i].kind = "NoTag" => ~Carries(uuid, conds[i].tag)

AllTagsValid(conds) == \A i \in DOMAIN conds : conds[i].tag \in {"yes", "no"}

IsPrefix(p, s) == Len(p) <= Len(s) /\ SubSeq(s, 1, Len(p)) = p

\* The identifier names the stored task.
Names(id, uuid) ==
    \/ id.kind = "Uuid" /\ uuid = id.uuid
    \/ id.kind = "WorkingSetId" /\ id.id + 1 \in DOMAIN working_set /\ working_set[id.id + 1] = uuid
    \/ id.kind = "PartialUuid" /\ IsPrefix(id.prefix, to_string(uuid))

\* The stored tasks an identifier list and a condition list denote.
Expected(ids, conds) ==
    {u \in DOMAIN tasks : Satisfies(conds, u) /\ \E k \in DOMAIN ids : Names(ids[k], u)}

\* The list with every full uuid replaced by the partial uuid of its text.
AsPartial(ids) ==
    [k \in DOMAIN ids |-> IF ids[k].kind = "Uuid" THEN PartialUuid(to_string(ids[k].uuid)) ELSE ids[k]]

Count(seq, x) == Cardinality({i \in DOMAIN seq : seq[i] = x})

ReturnedOk == pc = "done" /\ ret.kind = "Ok"

Returned == Range(ret.tasks)

Ids == filter.universe.ids

NoPartial == \A k \in DOMAIN Ids : Ids[k].kind # "PartialUuid"

\* The stored tasks whose text starts with the prefix.
PrefixMatches(p) == {u \in DOMAIN tasks : IsPrefix(p, to_string(u))}

\* C1: the sequence filtered_tasks returns never holds the same uuid twice,
\* whatever the universe, the identifiers and the conditions.
C1_NoDuplicates ==
    ret.kind = "Ok" => \A i, j \in DOMAIN ret.tasks : i # j => ret.tasks[i] # ret.tasks[j]

\* C1 witness: a returned task that two identifiers of different kinds name.
C1_Witness ==
    /\ ReturnedOk
    /\ filter.universe.kind = "IdList"
    /\ \E u \in Returned : \E j, k \in DOMAIN Ids :
          /\ Ids[j].kind = "Uuid" /\ Ids[k].kind = "WorkingSetId"
          /\ Names(Ids[j], u) /\ Names(Ids[k], u)


\* C2: for an IdList universe, with well-formed tags and no store error, the
\* set returned is the set of stored tasks that satisfy every condition and
\* that some identifier names, in the scan branch as in the direct-fetch
\* branch; replacing each full uuid by the partial uuid of its whole text
\* denotes the same set.
C2_IdListResult ==
    (ReturnedOk /\ filter.universe.kind = "IdList" /\ AllTagsValid(filter.conditions)) =>
        /\ Returned = Expected(Ids, filter.conditions)
        /\ Expected(AsPartial(Ids), filter.conditions) = Expected(Ids, filter.conditions)

\* C2 witness: the scan branch returned two tasks, one named by a working-set
\* index and one by the whole text of its uuid, under a condition.
C2_Witness ==
    /\ ReturnedOk
    /\ filter.universe.kind = "IdList"
    /\ filter.conditions # <<>>
    /\ AllTagsValid(filter.conditions)
    /\ Cardinality(DOMAIN tasks) = 2
    /\ Returned = DOMAIN tasks
    /\ \E j, k \in DOMAIN Ids :
          /\ Ids[j].kind = "WorkingSetId"
          /\ Ids[k].kind = "PartialUuid" /\ Len(Ids[k].prefix) = 3
          /\ \E u \in Returned : Names(Ids[k], u) /\ ~Names(Ids[j], u)

\* C3: with universe AllTasks, every stored task that satisfies the
\* conditions is returned exactly once, whatever its status, and nothing
\* else is; with no conditions that is every stored task.
C3_AllTasks ==
    (ReturnedOk /\ filter.universe.kind = "AllTasks") =>
        /\ Returned \subseteq DOMAIN tasks
        /\ \A u \in DOMAIN tasks :
              Count(ret.tasks, u) = IF Satisfies(filter.conditions, u) THEN 1 ELSE 0
        /\ filter.conditions = <<>> => Returned = DOMAIN tasks

\* C3 witness: with no conditions, a pending and a deleted task are returned.
C3_Witness ==
    /\ ReturnedOk
    /\ filter.universe.kind = "AllTasks"
    /\ filter.conditions = <<>>
    /\ Len(ret.tasks) = 2
    /\ \E u, v \in Returned : tasks[u].status = "Pending" /\ tasks[v].status = "Deleted"

\* C4: with universe PendingTasks, the tasks returned are exactly those that
\* hold a slot of the working set and satisfy the conditions: an empty slot
\* (the sentinel slot 0 included) gives nothing, and no task outside the
\* working set is returned.
C4_PendingTasks ==
    (ReturnedOk /\ filter.universe.kind = "PendingTasks") =>
        /\ Returned = {u \in DOMAIN tasks :
                          /\ \E i \in DOMAIN working_set : working_set[i] = u
                          /\ Satisfies(filter.conditions, u)}
        /\ \A u \in Returned : Count(ret.tasks, u) = 1

\* C4 witness: the working set has an empty slot before a held one, the store
\* has a task outside the working set, and the held task is returned.
C4_Witness ==
    /\ ReturnedOk
    /\ filter.universe.kind = "PendingTasks"
    /\ Len(working_set) = 3 /\ working_set[2] = None
    /\ Returned = {working_set[3]}
    /\ Cardinality(DOMAIN tasks) = 2

\* C5: match_task returns true exactly when the task carries the tag of
\* every HasTag condition and of no NoTag condition; it returns true for an
\* empty condition list, and it returns a boolean whenever the tags are
\* well formed.
C5_MatchTask ==
    /\ matched \in {"true", "false"} => ((matched = "true") <=> Satisfies(filter.conditions, 10))
    /\ (matched # "none" /\ filter.conditions = <<>>) => matched = "true"
    /\ (matched # "none" /\ AllTagsValid(filter.conditions)) => matched \in {"true", "false"}

\* C5 witness: a task matched a HasTag and a NoTag condition.
C5_Witness ==
    /\ matched = "true"
    /\ Len(filter.conditions) = 2
    /\ filter.conditions[1].kind = "HasTag"
    /\ filter.conditions[2].kind = "NoTag"

TotalCalls ==
    calls.all_tasks + calls.working_set + calls.get_task
        + calls.get_working_set_task + calls.get_working_set_index

HasInvalidTag(conds) == \E i \in DOMAIN conds : conds[i].tag \notin {"yes", "no"}

\* C6: when a condition names a malformed tag, the resolution fails before
\* any task is read from the store: it never returns successfully and makes
\* no store call.
C6_EagerTagValidation ==
    (pc # "idle" /\ HasInvalidTag(filter.conditions)) =>
        /\ ret.kind # "Ok"
        /\ TotalCalls = 0

\* C7: when a store call fails, filtered_tasks returns that error and none
\* of the tasks collected so far, and makes no further store call.
C7_StoreErrorPropagates ==
    /\ [](raised # "" => (pc = "done" /\ ret = Err(raised)))
    /\ [][raised # "" => calls' = calls]_vars

\* C7 witness: get_working_set_index failed in the scan branch after a task
\* had been pushed.
C7_Witness ==
    /\ raised # ""
    /\ ret.kind = "Err"
    /\ res # <<>>
    /\ calls.get_working_set_index > 0

\* The partial uuids of the list that are ambiguous: more than one stored
\* task starts with the prefix, no other identifier names one of them, and
\* every one of them satisfies the conditions.
AmbiguousAt(k) ==
    /\ Ids[k].kind = "PartialUuid"
    /\ Cardinality(PrefixMatches(Ids[k].prefix)) > 1
    /\ \A u \in PrefixMatches(Ids[k].prefix) :
          /\ Satisfies(filter.conditions, u)
          /\ \A j \in DOMAIN Ids : j # k => ~Names(Ids[j], u)

\* C8 as claimed: of the tasks an ambiguous prefix matches, exactly one is
\* returned (the first in the enumeration order).
C8_FirstMatchOnly ==
    (ReturnedOk /\ filter.universe.kind = "IdList") =>
        \A k \in DOMAIN Ids :
            AmbiguousAt(k) => Cardinality(Returned \cap PrefixMatches(Ids[k].prefix)) = 1

\* C8 as amended: every task an ambiguous prefix matches is returned, exactly
\* once, in every enumeration order.
C8_AllMatchesReturned ==
    (ReturnedOk /\ filter.universe.kind = "IdList") =>
        \A k \in DOMAIN Ids :
            AmbiguousAt(k) => \A u \in PrefixMatches(Ids[k].prefix) : Count(ret.tasks, u) = 1

\* C8 witness: a prefix matched two stored tasks and both were returned.
C8_Witness ==
    /\ ReturnedOk
    /\ filter.universe.kind = "IdList"
    /\ \E k \in DOMAIN Ids : AmbiguousAt(k) /\ PrefixMatches(Ids[k].prefix) \subseteq Returned

Perms(n) == {p \in [1..n -> 1..n] : \A i, j \in 1..n : p[i] = p[j] => i = j}

Permuted(seq, p) == [i \in DOMAIN seq |-> seq[p[i]]]

\* C9: every ordering of the same conditions gives match_task the same
\* outcome (the same boolean, the same success or failure).
C9_OrderIrrelevant ==
    matched # "none" =>
        \A p \in Perms(Len(filter.conditions)) :
            match_from(Permuted(filter.conditions, p), 1, 10) = matched

\* C10: for an IdList without a partial uuid only point lookups are made, at
\* most one per identifier: never all_tasks, working_set or
\* get_working_set_index; an empty list returns the empty result with no
\* store call; an identifier that finds no task is passed over, so that
\* without a store error or a panic the call returns successfully.
C10_DirectFetchPointLookups ==
    (pc # "idle" /\ filter.universe.kind = "IdList" /\ NoPartial) =>
        /\ calls.all_tasks = 0 /\ calls.working_set = 0 /\ calls.get_working_set_index = 0
        /\ calls.get_task <= Cardinality({k \in DOMAIN Ids : Ids[k].kind = "Uuid"})
        /\ calls.get_working_set_task
              <= Cardinality({k \in DOMAIN Ids : Ids[k].kind = "WorkingSetId"})
        /\ (Ids = <<>> /\ pc = "done") => (ret = Ok(<<>>) /\ TotalCalls = 0)
        /\ (pc = "done" /\ raised = "") => ret.kind = "Ok"

\* C10 witness: an unknown uuid and an empty working-set slot were looked up,
\* one call each, and the empty result was returned.
C10_Witness ==
    /\ ReturnedOk
    /\ filter.universe.kind = "IdList"
    /\ Len(Ids) = 2
    /\ Ids[1].kind = "Uuid" /\ Ids[1].uuid \notin DOMAIN tasks
    /\ Ids[2].kind = "WorkingSetId" /\ get_working_set_task(Ids[2].id) = None
    /\ DOMAIN tasks # {}
    /\ ret.tasks = <<>>
    /\ calls.get_task = 1 /\ calls.get_working_set_task = 1

====
